---- MODULE Spec2Model ----
(***************************************************************************)
(* Field extraction of script.py: extract_fields_from_text(text,           *)
(* raw_results).  A text is a sequence of Unicode code points; an OCR      *)
(* result is the tuple <<bbox, text, confidence>> that easyocr's readtext  *)
(* yields, with bbox[1] = <<x, y>> the first (top-left) corner.  Python's  *)
(* 0-based list positions are kept: At(l, k) is l[k].                      *)
(***************************************************************************)
EXTENDS Integers, Sequences, FiniteSets, TLC

\* Longest token sequence handed to extract_fields_from_text.
MaxLen == 3

\* Python's None; no text equals it (no code point is negative).
None == <<-1>>

\* l[k] of a Python list.
At(l, k) == l[k + 1]

\* Truth value of a str-or-None (`if x:` / `if not x:`).
Truthy(v) == v # None /\ v # <<>>

(***************************************************************************)
(* Character classes of Python's str and re (the code points that occur    *)
(* in Latin/Arabic card text).                                             *)
(***************************************************************************)
\* str.isspace: what strip() removes and split() separates on.
IsSpace(c) == c \in {9, 10, 11, 12, 13, 28, 29, 30, 31, 32, 133, 160}

\* re's \d on str patterns: the decimal digits (ASCII, Arabic-Indic, extended).
IsDecimal(c) ==
    \/ 48 <= c /\ c <= 57
    \/ 1632 <= c /\ c <= 1641
    \/ 1776 <= c /\ c <= 1785

\* str.isdigit: the decimal digits and the superscript digits.
IsDigit(c) == IsDecimal(c) \/ c \in {178, 179, 185}

\* re's \w: letters, decimal digits and the underscore.
IsWord(c) ==
    \/ IsDecimal(c)
    \/ 65 <= c /\ c <= 90
    \/ 97 <= c /\ c <= 122
    \/ c = 95
    \/ 1568 <= c /\ c <= 1610
    \/ 1646 <= c /\ c <= 1647
    \/ 1649 <= c /\ c <= 1747

\* The class [U+0600-U+06FF] of line 132.
IsArabic(c) == 1536 <= c /\ c <= 1791

(***************************************************************************)
(* str operations.                                                         *)
(***************************************************************************)
\* s.strip()
strip(s) ==
    LET keep == {p \in 1..Len(s) : ~IsSpace(s[p])}
    IN  IF keep = {} THEN <<>>
        ELSE LET lo == CHOOSE p \in keep : \A q \in keep : p <= q
                 hi == CHOOSE p \in keep : \A q \in keep : q <= p
             IN  SubSeq(s, lo, hi)

\* len(s.split()): the number of maximal runs of non-whitespace.
split_len(s) ==
    Cardinality({p \in 1..Len(s) : ~IsSpace(s[p]) /\ (p = 1 \/ IsSpace(s[p - 1]))})

\* sub in s
contains(sub, s) ==
    \E p \in 1..(Len(s) - Len(sub) + 1) : SubSeq(s, p, p + Len(sub) - 1) = sub

\* any(indicator in text_block for indicator in indicators)
any_indicator(indicators, text_block) ==
    \E k \in 1..Len(indicators) : contains(indicators[k], text_block)

\* any(char.isdigit() for char in text_block)
any_isdigit(text_block) == \E p \in 1..Len(text_block) : IsDigit(text_block[p])

(***************************************************************************)
(* re operations.  A pattern is a record: kind "date" is \d{2}S\d{2}S\d{4} *)
(* with separator sep; kind "digits" is \b\d{lo,hi}\b.                     *)
(***************************************************************************)
\* End of the maximal run of decimal digits that starts at p.
RunEnd(s, p) ==
    CHOOSE q \in p..Len(s) :
        /\ \A k \in p..q : IsDecimal(s[k])
        /\ q = Len(s) \/ ~IsDecimal(s[q + 1])

RECURSIVE FindallFrom(_, _)
FindallFrom(s, p) ==
    IF p > Len(s) THEN <<>>
    ELSE IF IsDecimal(s[p])
         THEN <<SubSeq(s, p, RunEnd(s, p))>> \o FindallFrom(s, RunEnd(s, p) + 1)
         ELSE FindallFrom(s, p + 1)

\* re.findall(r'\d+', s): the maximal digit runs, left to right.
re_findall_digits(s) == FindallFrom(s, 1)

\* \b between s[p-1] and s[p] (1-based p in 1..Len(s)+1).
WordBoundary(s, p) ==
    LET before == p > 1 /\ IsWord(s[p - 1])
        after  == p <= Len(s) /\ IsWord(s[p])
    IN  before # after

AllDecimal(s, p, n) == p + n - 1 <= Len(s) /\ \A k \in p..(p + n - 1) : IsDecimal(s[k])

\* The largest element of a finite set of naturals, 0 for the empty set.
MaxOrZero(S) == IF S = {} THEN 0 ELSE CHOOSE n \in S : \A m \in S : m <= n

\* The smallest element of a non-empty finite set of integers.
MinOf(S) == CHOOSE n \in S : \A m \in S : n <= m

\* Length of the match of pattern anchored at p, 0 when there is none.
\* \d{lo,hi} is greedy: the longest count that lets the rest match.
MatchLenAt(pattern, s, p) ==
    IF pattern.kind = "date"
    THEN IF /\ p + 9 <= Len(s)
            /\ AllDecimal(s, p, 2) /\ s[p + 2] = pattern.sep
            /\ AllDecimal(s, p + 3, 2) /\ s[p + 5] = pattern.sep
            /\ AllDecimal(s, p + 6, 4)
         THEN 10 ELSE 0
    ELSE MaxOrZero({n \in pattern.lo..pattern.hi :
                        /\ WordBoundary(s, p)
                        /\ AllDecimal(s, p, n)
                        /\ WordBoundary(s, p + n)})

\* match.group() of the match that starts at p.
GroupAt(pattern, s, p) == SubSeq(s, p, p + MatchLenAt(pattern, s, p) - 1)

\* The leftmost of the matches that start in starts, None when there is none.
MatchFrom(pattern, s, starts) ==
    IF starts = {} THEN None ELSE GroupAt(pattern, s, MinOf(starts))

\* re.search(pattern, s): the leftmost match's group(), None when no match.
re_search(pattern, s) ==
    MatchFrom(pattern, s, {p \in 1..Len(s) : MatchLenAt(pattern, s, p) > 0})

(***************************************************************************)
(* The tables of extract_fields_from_text.                                 *)
(***************************************************************************)
name_indicators ==
    << <<1575, 1604, 1575, 1587, 1605>>,
       <<1575, 1587, 1605>>,
       <<78, 97, 109, 101>>,
       <<1575, 1604, 1575, 1587, 1605, 32, 1575, 1604, 1603, 1575, 1605, 1604>>,
       <<70, 117, 108, 108, 32, 78, 97, 109, 101>> >>

dob_indicators ==
    << <<1578, 1575, 1585, 1610, 1582, 32, 1575, 1604, 1605, 1610, 1604, 1575, 1583>>,
       <<68, 97, 116, 101, 32, 111, 102, 32, 66, 105, 114, 116, 104>>,
       <<68, 65, 84, 69, 32, 79, 70, 32, 66, 73, 82, 84, 72>> >>

\* The ID indicators with the empty string among them.
id_indicators_with_empty ==
    << <<1575, 1604, 1585, 1602, 1605, 32, 1575, 1604, 1605, 1583, 1606, 1610>>,
       <<67, 73, 86, 73, 76, 32, 78, 85, 77, 66, 69, 82>>,
       <<>> >>

id_indicators ==
    << <<1575, 1604, 1585, 1602, 1605, 32, 1575, 1604, 1605, 1583, 1606, 1610>>,
       <<67, 73, 86, 73, 76, 32, 78, 85, 77, 66, 69, 82>> >>

dob_patterns ==
    << [kind |-> "date", sep |-> 47, lo |-> 0, hi |-> 0],
       [kind |-> "date", sep |-> 45, lo |-> 0, hi |-> 0] >>

\* The loose pattern listed before the strict one.
id_patterns_loose_first ==
    << [kind |-> "digits", sep |-> 0, lo |-> 8, hi |-> 10],
       [kind |-> "digits", sep |-> 0, lo |-> 8, hi |-> 8] >>

id_patterns ==
    << [kind |-> "digits", sep |-> 0, lo |-> 8, hi |-> 8],
       [kind |-> "digits", sep |-> 0, lo |-> 8, hi |-> 10] >>

(***************************************************************************)
(* list operations.                                                        *)
(***************************************************************************)
\* The key with its two components exchanged: (x, y).
sort_key_xy(x) == <<x[1][1][1], x[1][1][2]>>

\* The sort key of line 66: (x[0][0][1], x[0][0][0]), that is (y, x).
sort_key(x) == <<x[1][1][2], x[1][1][1]>>

\* Python's order on 2-tuples of numbers.
key_less(a, b) == a[1] < b[1] \/ (a[1] = b[1] /\ a[2] < b[2])

\* x put into the list l behind its first p elements.
insert_at(x, l, p) == SubSeq(l, 1, p) \o <<x>> \o SubSeq(l, p + 1, Len(l))

\* x put into the key-sorted list l behind every element whose key is not greater.
insort(x, l) ==
    insert_at(x, l,
        Cardinality({q \in 1..Len(l) : ~key_less(sort_key(x), sort_key(l[q]))}))

\* sorted(l, key=sort_key): a new list, stable (equal keys keep their order).
RECURSIVE sorted(_)
sorted(l) ==
    IF l = <<>> THEN <<>>
    ELSE insort(l[Len(l)], sorted(SubSeq(l, 1, Len(l) - 1)))

\* raw_results.sort(key=...) in place, the view being the list itself.
sort_results_in_place(raw) == [raw_results |-> sorted(raw), sorted_results |-> sorted(raw)]

\* The view left in received order.
sort_results_unsorted(raw) == [raw_results |-> raw, sorted_results |-> raw]

\* Line 66: what the statement leaves in raw_results and in sorted_results.
sort_results(raw) == [raw_results |-> raw, sorted_results |-> sorted(raw)]

\* l.index(v): the first position whose element equals v.
list_index(l, v) ==
    CHOOSE k \in 0..(Len(l) - 1) :
        At(l, k) = v /\ \A m \in 0..(k - 1) : At(l, m) # v

\* Off by one: idx + 1 <= len(raw_results).
next_in_range_inclusive(idx, n) == idx + 1 <= n

\* The test `idx + 1 < len(raw_results)` of lines 81 and 97.
next_in_range(idx, n) == idx + 1 < n

\* The fallback run whatever the first pass found.
pass2_always(v) == TRUE

\* The test `if not id_number:` / `if not dob:` of lines 106 and 117.
pass2_needed(v) == ~Truthy(v)

(***************************************************************************)
(* The loop bodies.  loc holds the locals id_number, dob, idx; fault is    *)
(* set when a statement raises (IndexError of raw_results[idx + 1]).       *)
(***************************************************************************)
\* The value the pattern loop leaves: the match of the first pattern among
\* hits, cur when there is none.
first_hit(patterns, s, cur, hits) ==
    IF hits = {} THEN cur ELSE re_search(patterns[MinOf(hits)], s)

\* for pattern in patterns: m = re.search(pattern, s); if m: cur = m.group(); break
pattern_loop(patterns, s, cur) ==
    first_hit(patterns, s, cur,
        {k \in 1..Len(patterns) : re_search(patterns[k], s) # None})

\* Lines 76-77 and 84-85: if numbers: id_number = numbers[0].
id_from_numbers(loc, numbers) ==
    IF numbers # <<>> THEN [loc EXCEPT !.id_number = numbers[1]] ELSE loc

\* Lines 81-85, idx being set.
id_from_next(raw, loc) ==
    IF ~next_in_range(loc.idx, Len(raw)) THEN loc
    ELSE IF loc.idx + 1 >= Len(raw) THEN [loc EXCEPT !.fault = TRUE]
    ELSE id_from_numbers(loc, re_findall_digits(At(raw, loc.idx + 1)[2]))

\* Lines 76-85, numbers being the digit runs of the label's own text.
id_from_label(raw, result, loc, numbers) ==
    IF numbers # <<>> THEN [loc EXCEPT !.id_number = numbers[1]]
    ELSE id_from_next(raw, [loc EXCEPT !.idx = list_index(raw, result)])

\* Lines 73-85.
pass1_id(raw, result, loc) ==
    IF any_indicator(id_indicators, strip(result[2]))
    THEN id_from_label(raw, result, loc, re_findall_digits(strip(result[2])))
    ELSE loc

\* Lines 97-103, idx being set.
dob_from_next(raw, loc) ==
    IF ~next_in_range(loc.idx, Len(raw)) THEN loc
    ELSE IF loc.idx + 1 >= Len(raw) THEN [loc EXCEPT !.fault = TRUE]
    ELSE [loc EXCEPT !.dob =
              pattern_loop(dob_patterns, At(raw, loc.idx + 1)[2], loc.dob)]

\* Lines 94-103, the label's own text having been searched.
dob_from_label(raw, result, loc) ==
    IF Truthy(loc.dob) THEN loc
    ELSE dob_from_next(raw, [loc EXCEPT !.idx = list_index(raw, result)])

\* Lines 88-103.
pass1_dob(raw, result, loc) ==
    IF any_indicator(dob_indicators, strip(result[2]))
    THEN dob_from_label(raw, result,
             [loc EXCEPT !.dob = pattern_loop(dob_patterns, strip(result[2]), loc.dob)])
    ELSE loc

\* Lines 87-103, not reached when line 82 raised.
dob_unless_raised(raw, result, loc) ==
    IF loc.fault THEN loc ELSE pass1_dob(raw, result, loc)

\* Lines 70-103: one iteration of the first pass.
pass1_body(raw, result, loc) == dob_unless_raised(raw, result, pass1_id(raw, result, loc))

\* Lines 108-113 and 119-124: one iteration of a second-pass loop.
pass2_body(patterns, result, cur) == pattern_loop(patterns, result[2], cur)

\* Lines 132-136: the test a sorted result must pass to become the name.
name_test(text_block) ==
    /\ \E p \in 1..Len(text_block) : IsArabic(text_block[p])
    /\ split_len(text_block) \in 2..4
    /\ ~any_isdigit(text_block)
    /\ ~any_indicator(name_indicators \o dob_indicators \o id_indicators, text_block)

(***************************************************************************)
(* extract_fields_from_text as a function of the list: the loops run to    *)
(* their end.                                                              *)
(***************************************************************************)
RECURSIVE pass1_from(_, _, _)
pass1_from(raw, k, loc) ==
    IF k >= Len(raw) \/ loc.fault THEN loc
    ELSE pass1_from(raw, k + 1, pass1_body(raw, At(raw, k), loc))

RECURSIVE pass2_from(_, _, _, _)
\* Lines 114-115 and 125-126: `if id_number: break`, v being the body's value.
pass2_next(patterns, raw, k, v) ==
    IF Truthy(v) THEN v ELSE pass2_from(patterns, raw, k + 1, v)

pass2_from(patterns, raw, k, cur) ==
    IF k >= Len(raw) THEN cur
    ELSE pass2_next(patterns, raw, k, pass2_body(patterns, At(raw, k), cur))

\* Lines 106-115 and 117-126.
fallback(patterns, raw, cur) ==
    IF pass2_needed(cur) THEN pass2_from(patterns, raw, 0, cur) ELSE cur

RECURSIVE pass3_from(_, _)
\* Lines 132-138, text_block being the stripped text at position k.
pass3_at(srt, k, text_block) ==
    IF name_test(text_block) THEN text_block ELSE pass3_from(srt, k + 1)

pass3_from(srt, k) ==
    IF k >= Len(srt) THEN None ELSE pass3_at(srt, k, strip(At(srt, k)[2]))

Locals0 == [id_number |-> None, dob |-> None, idx |-> -1, fault |-> FALSE]

\* Lines 105-140, p1 being the locals the first pass left.
extract_after_pass1(s, p1) ==
    IF p1.fault
    THEN [raised |-> TRUE, name |-> None, dob |-> None, id_number |-> None]
    ELSE [raised |-> FALSE,
          name |-> pass3_from(s.sorted_results, 0),
          dob |-> fallback(dob_patterns, s.raw_results, p1.dob),
          id_number |-> fallback(id_patterns, s.raw_results, p1.id_number)]

\* Lines 68-140, s being the two lists line 66 leaves.
extract_sorted(s) == extract_after_pass1(s, pass1_from(s.raw_results, 0, Locals0))

extract_fields_from_text(raw) == extract_sorted(sort_results(raw))

(***************************************************************************)
(* Token texts.                                                            *)
(***************************************************************************)
\* "CIVIL NUMBER"
T_CIVIL == <<67, 73, 86, 73, 76, 32, 78, 85, 77, 66, 69, 82>>
\* "CIVIL NUMBER 11"
T_CIVIL_11 == <<67, 73, 86, 73, 76, 32, 78, 85, 77, 66, 69, 82, 32, 49, 49>>
\* "123"
T_N3 == <<49, 50, 51>>
\* "12345678"
T_N8 == <<49, 50, 51, 52, 53, 54, 55, 56>>
\* "123456789"
T_N9 == <<49, 50, 51, 52, 53, 54, 55, 56, 57>>
\* "12345678901"
T_N11 == <<49, 50, 51, 52, 53, 54, 55, 56, 57, 48, 49>>
\* "123456789 87654321"
T_MIX == <<49, 50, 51, 52, 53, 54, 55, 56, 57, 32, 56, 55, 54, 53, 52, 51, 50, 49>>
\* "A12345678"
T_A8 == <<65, 49, 50, 51, 52, 53, 54, 55, 56>>
\* "Date of Birth"
T_DOB == <<68, 97, 116, 101, 32, 111, 102, 32, 66, 105, 114, 116, 104>>
\* "Date of Birth 15/03/1990"
T_DOB_SLASH ==
    <<68, 97, 116, 101, 32, 111, 102, 32, 66, 105, 114, 116, 104, 32,
      49, 53, 47, 48, 51, 47, 49, 57, 57, 48>>
\* "01-02-2000"
T_DASH == <<48, 49, 45, 48, 50, 45, 50, 48, 48, 48>>
\* "01-02-2000 12345678"
T_DASH_N8 == <<48, 49, 45, 48, 50, 45, 50, 48, 48, 48, 32, 49, 50, 51, 52, 53, 54, 55, 56>>
\* ""
T_EMPTY == <<>>
\* Three Arabic words (the name of the spec's scenario C).
T_AR3 == <<1605, 1581, 1605, 1583, 32, 1571, 1581, 1605, 1583, 32, 1587, 1575, 1604, 1605>>
\* Two Arabic words.
T_AR2 == <<1587, 1575, 1604, 1605, 32, 1593, 1604, 1610>>
\* Two other Arabic words, with a leading and a trailing space.
T_AR2_PAD == <<32, 1593, 1604, 1610, 32, 1571, 1581, 1605, 1583, 32>>
\* One Arabic word.
T_AR1 == <<1605, 1581, 1605, 1583>>
\* Five Arabic words.
T_AR5 ==
    <<1605, 1581, 1605, 1583, 32, 1576, 1606, 32, 1571, 1581, 1605, 1583, 32,
      1576, 1606, 32, 1587, 1575, 1604, 1605>>
\* Two Arabic words and "7".
T_AR_DIGIT == <<1605, 1581, 1605, 1583, 32, 1571, 1581, 1605, 1583, 32, 55>>
\* The name indicator name_indicators[1] and two Arabic words.
T_AR_LABEL ==
    <<1575, 1604, 1575, 1587, 1605, 32, 1605, 1581, 1605, 1583, 32, 1571, 1581, 1605, 1583>>
\* "John Smith"
T_LATIN == <<74, 111, 104, 110, 32, 83, 109, 105, 116, 104>>

\* An OCR result (bbox, text, confidence) with top-left corner (x, y).
Tok(x, y, text) == << << <<x, y>> >>, text, 90 >>

\* Labels, values and a name, for the label pass and its fallback; one
\* label text is detected at two places.
MixedTokens ==
    { Tok(0, 0, T_CIVIL), Tok(0, 1, T_CIVIL_11), Tok(1, 0, T_N3),
      Tok(0, 2, T_DOB), Tok(0, 3, T_DOB_SLASH), Tok(1, 2, T_DASH),
      Tok(1, 3, T_DASH_N8), Tok(2, 0, T_EMPTY), Tok(2, 2, T_AR3),
      Tok(3, 0, T_CIVIL) }

\* Digit strings around the two id_patterns.
IdTokens ==
    { Tok(0, 0, T_CIVIL), Tok(1, 0, T_N8), Tok(1, 1, T_N9), Tok(1, 2, T_N11),
      Tok(1, 3, T_MIX), Tok(1, 4, T_A8), Tok(1, 5, T_N3), Tok(2, 0, T_EMPTY) }

\* Name candidates and near misses, some on the same corner, a token with
\* a date and an ID, and an ID label.
NameTokens ==
    { Tok(0, 1, T_AR3), Tok(1, 0, T_AR2), Tok(0, 1, T_AR2_PAD),
      Tok(0, 0, T_AR1), Tok(0, 0, T_AR5), Tok(0, 0, T_AR_DIGIT),
      Tok(0, 0, T_AR_LABEL), Tok(0, 0, T_LATIN), Tok(2, 2, T_EMPTY),
      Tok(2, 1, T_DASH_N8), Tok(1, 1, T_CIVIL_11) }

SeqsUpTo(S, n) == UNION {[1..k -> S] : k \in 0..n}

(***************************************************************************)
(* The call extract_fields_from_text(text, raw_results) as a state         *)
(* machine.  ocr is what readtext returned (the value the caller passed);  *)
(* raw_results is the list object the function works on; i is the 0-based  *)
(* position the running for loop visits next.                              *)
(***************************************************************************)
VARIABLES ocr, raw_results, sorted_results, name, dob, id_number, idx, i, pc

vars == <<ocr, raw_results, sorted_results, name, dob, id_number, idx, i, pc>>

InitWith(Tokens) ==
    /\ ocr \in SeqsUpTo(Tokens, MaxLen)
    /\ raw_results = ocr
    /\ sorted_results = <<>>
    /\ name = None /\ dob = None /\ id_number = None
    /\ idx = -1 /\ i = 0
    /\ pc = "call"

Init == InitWith(MixedTokens)

InitId == InitWith(IdTokens)

InitName == InitWith(NameTokens)

\* The two lists as line 66 leaves them.
EnterWith(s) ==
    /\ raw_results' = s.raw_results
    /\ sorted_results' = s.sorted_results

\* Lines 45-66.
Enter ==
    /\ pc = "call"
    /\ name' = None /\ dob' = None /\ id_number' = None
    /\ EnterWith(sort_results(raw_results))
    /\ i' = 0
    /\ pc' = "pass1"
    /\ UNCHANGED <<ocr, idx>>

\* The locals one first-pass iteration leaves; a raise ends the call.
Pass1With(loc) ==
    /\ id_number' = loc.id_number
    /\ dob' = loc.dob
    /\ idx' = loc.idx
    /\ pc' = IF loc.fault THEN "raised" ELSE "pass1"

\* Lines 69-103: one iteration of `for result in raw_results`, or its end.
Pass1 ==
    /\ pc = "pass1"
    /\ IF i < Len(raw_results)
       THEN /\ Pass1With(pass1_body(raw_results, At(raw_results, i),
                     [id_number |-> id_number, dob |-> dob,
                      idx |-> idx, fault |-> FALSE]))
            /\ i' = i + 1
       ELSE /\ pc' = "p2id_if"
            /\ i' = 0
            /\ UNCHANGED <<id_number, dob, idx>>
    /\ UNCHANGED <<ocr, raw_results, sorted_results, name>>

\* Line 106.
Pass2IdIf ==
    /\ pc = "p2id_if"
    /\ pc' = IF pass2_needed(id_number) THEN "p2id_for" ELSE "p2dob_if"
    /\ UNCHANGED <<ocr, raw_results, sorted_results, name, dob, id_number, idx, i>>

\* Lines 112-115: v is what the pattern loop leaves; `if id_number: break`.
Pass2IdWith(v) ==
    /\ id_number' = v
    /\ i' = IF Truthy(v) THEN 0 ELSE i + 1
    /\ pc' = IF Truthy(v) THEN "p2dob_if" ELSE "p2id_for"

\* Lines 107-115: one iteration, or the loop's end.
Pass2IdFor ==
    /\ pc = "p2id_for"
    /\ IF i < Len(raw_results)
       THEN Pass2IdWith(pass2_body(id_patterns, At(raw_results, i), id_number))
       ELSE /\ pc' = "p2dob_if"
            /\ i' = 0
            /\ UNCHANGED id_number
    /\ UNCHANGED <<ocr, raw_results, sorted_results, name, dob, idx>>

\* Line 117.
Pass2DobIf ==
    /\ pc = "p2dob_if"
    /\ pc' = IF pass2_needed(dob) THEN "p2dob_for" ELSE "pass3"
    /\ UNCHANGED <<ocr, raw_results, sorted_results, name, dob, id_number, idx, i>>

\* Lines 123-126: v is what the pattern loop leaves; `if dob: break`.
Pass2DobWith(v) ==
    /\ dob' = v
    /\ i' = IF Truthy(v) THEN 0 ELSE i + 1
    /\ pc' = IF Truthy(v) THEN "pass3" ELSE "p2dob_for"

\* Lines 118-126: one iteration, or the loop's end.
Pass2DobFor ==
    /\ pc = "p2dob_for"
    /\ IF i < Len(raw_results)
       THEN Pass2DobWith(pass2_body(dob_patterns, At(raw_results, i), dob))
       ELSE /\ pc' = "pass3"
            /\ i' = 0
            /\ UNCHANGED dob
    /\ UNCHANGED <<ocr, raw_results, sorted_results, name, id_number, idx>>

\* Lines 132-138, text_block being the stripped text of the result visited.
Pass3With(text_block) ==
    IF name_test(text_block)
    THEN name' = text_block /\ pc' = "return"
    ELSE name' = name /\ pc' = "pass3"

\* Lines 129-138: one iteration of `for result in sorted_results`, or its end.
Pass3 ==
    /\ pc = "pass3"
    /\ IF i < Len(sorted_results)
       THEN Pass3With(strip(At(sorted_results, i)[2])) /\ i' = i + 1
       ELSE pc' = "return" /\ UNCHANGED <<name, i>>
    /\ UNCHANGED <<ocr, raw_results, sorted_results, dob, id_number, idx>>

\* Line 140: the caller holds (name, dob, id_number).
Return ==
    /\ pc = "return"
    /\ pc' = "done"
    /\ UNCHANGED <<ocr, raw_results, sorted_results, name, dob, id_number, idx, i>>

Next ==
    \/ Enter
    \/ Pass1
    \/ Pass2IdIf
    \/ Pass2IdFor
    \/ Pass2DobIf
    \/ Pass2DobFor
    \/ Pass3
    \/ Return

Spec == Init /\ [][Next]_vars

SpecId == InitId /\ [][Next]_vars

SpecName == InitName /\ [][Next]_vars

(***************************************************************************)
(* Properties.                                                             *)
(***************************************************************************)
\* Program points after the first pass.
AfterPass1 == {"p2id_if", "p2id_for", "p2dob_if", "p2dob_for", "pass3", "return"}

\* The result the first pass visits in this state.
Visiting == At(raw_results, i)

\* An ID label with no digit run in its own (stripped) text.
IdLabelNoValue(result) ==
    /\ \E k \in 1..Len(id_indicators) : contains(id_indicators[k], strip(result[2]))
    /\ \A p \in 1..Len(strip(result[2])) : ~IsDecimal(strip(result[2])[p])

\* A DOB label with no date in its own (stripped) text.
DobLabelNoValue(result) ==
    /\ \E k \in 1..Len(dob_indicators) : contains(dob_indicators[k], strip(result[2]))
    /\ \A k \in 1..Len(dob_patterns) : re_search(dob_patterns[k], strip(result[2])) = None

\* A step after the first pass keeps a non-null field.
PriorityStep ==
    pc \in AfterPass1 =>
        /\ id_number # None => id_number' = id_number
        /\ dob # None => dob' = dob

\* C1: a field the first pass left non-null is not changed by the second
\* pass nor by anything after it, so the value returned is the first pass's.
PriorityHolds == [][PriorityStep]_vars

\* C1 witness: both fields were set from labels although an earlier token
\* matches the fallback patterns of both with other values.
PriorityWitness ==
    /\ pc = "done"
    /\ id_number # None /\ dob # None
    /\ pass2_from(id_patterns, raw_results, 0, None) \notin {None, id_number}
    /\ pass2_from(dob_patterns, raw_results, 0, None) \notin {None, dob}

\* C2 as claimed: within the first pass id_number, once set, is not
\* overwritten by a later label token.
FirstIdLabelKept ==
    [][pc = "pass1" /\ id_number # None => id_number' = id_number]_vars

\* C3 as claimed: within the first pass dob, once set, is not changed by a
\* later label token.
FirstDobLabelKept ==
    [][pc = "pass1" /\ dob # None => dob' = dob]_vars

\* A first-pass step at a position that is not the last reads position i + 1.
AdjacentStep ==
    pc = "pass1" /\ i + 1 < Len(raw_results) =>
        /\ IdLabelNoValue(Visiting) =>
              id_number' =
                  IF re_findall_digits(At(raw_results, i + 1)[2]) # <<>>
                  THEN re_findall_digits(At(raw_results, i + 1)[2])[1]
                  ELSE id_number
        /\ DobLabelNoValue(Visiting) /\ ~Truthy(dob) =>
              dob' = pattern_loop(dob_patterns, At(raw_results, i + 1)[2], dob)

\* C4 as claimed: a label at position i without a value of its own, i not
\* the last position, takes its value from the token at position i + 1.
NextTokenIsAdjacent == [][AdjacentStep]_vars

\* A first-pass step at the last position keeps an unset field unset.
LastLabelStep ==
    pc = "pass1" /\ i + 1 = Len(raw_results) =>
        /\ IdLabelNoValue(Visiting) /\ id_number = None => id_number' = None
        /\ DobLabelNoValue(Visiting) /\ dob = None => dob' = None

\* C5: no statement raises; the empty list returns three absent fields; a
\* label without a value of its own at the last position leaves an unset
\* field unset in the first pass.
NeverFaults ==
    /\ [](/\ pc # "raised"
          /\ pc = "done" /\ ocr = <<>> =>
                 name = None /\ dob = None /\ id_number = None)
    /\ [][LastLabelStep]_vars

\* C5 witness: the first pass has ended with an ID label and a DOB label
\* that have no value of their own, the latter at the last position, and
\* both fields unset.
LastLabelWitness ==
    /\ pc = "p2id_if"
    /\ Len(raw_results) >= 2
    /\ IdLabelNoValue(At(raw_results, Len(raw_results) - 2))
    /\ DobLabelNoValue(At(raw_results, Len(raw_results) - 1))
    /\ id_number = None /\ dob = None

\* \b\d{8}\b and \b\d{8,10}\b, as the claim orders them.
Strict8 == [kind |-> "digits", sep |-> 0, lo |-> 8, hi |-> 8]

Loose8to10 == [kind |-> "digits", sep |-> 0, lo |-> 8, hi |-> 10]

MatchesIdPattern(text) == re_search(Strict8, text) # None \/ re_search(Loose8to10, text) # None

\* The ID fallback loop runs only while the ID is absent, and no token it
\* has passed matches an ID pattern; a returned absent ID means no token does.
IdFallbackInv ==
    /\ pc = "p2id_for" =>
          /\ id_number = None
          /\ \A k \in 0..(i - 1) : ~MatchesIdPattern(At(raw_results, k)[2])
    /\ pc = "done" /\ id_number = None =>
          \A k \in 0..(Len(raw_results) - 1) : ~MatchesIdPattern(At(raw_results, k)[2])

\* The loop is entered exactly when the ID is absent; it stops at the first
\* token that matches, with the strict pattern's match if there is one and
\* else the loose pattern's; what it set is what is returned.
IdFallbackStep ==
    /\ pc = "p2id_if" => (pc' = "p2id_for") = (id_number = None)
    /\ pc = "p2id_for" /\ i < Len(raw_results) =>
          IF re_search(Strict8, Visiting[2]) # None
          THEN id_number' = re_search(Strict8, Visiting[2]) /\ pc' = "p2dob_if"
          ELSE IF re_search(Loose8to10, Visiting[2]) # None
          THEN id_number' = re_search(Loose8to10, Visiting[2]) /\ pc' = "p2dob_if"
          ELSE id_number' = None /\ pc' = "p2id_for" /\ i' = i + 1
    /\ pc = "p2id_for" /\ i >= Len(raw_results) => id_number' = None
    /\ pc \in {"p2dob_if", "p2dob_for", "pass3", "return"} => id_number' = id_number

\* C6: with the ID absent after the first pass, the returned ID is the match
\* of the first token, in received order, that matches an ID pattern,
\* strict 8-digit pattern first; later tokens are not examined; the ID stays
\* absent exactly when no token matches.
IdFallbackFirstMatch == []IdFallbackInv /\ [][IdFallbackStep]_vars

\* C6 witness: "123" (no match), then "123456789 87654321" whose strict
\* match is the second number, then "12345678", which is never examined.
IdFallbackWitness ==
    /\ pc = "done"
    /\ Len(ocr) = 3
    /\ ocr[1][2] = T_N3 /\ ocr[2][2] = T_MIX /\ ocr[3][2] = T_N8
    /\ id_number = SubSeq(T_MIX, 11, 18)

\* The four criteria of a name candidate, on the stripped text.
NameCriteria(t) ==
    /\ \E p \in 1..Len(t) : 1536 <= t[p] /\ t[p] <= 1791
    /\ split_len(t) \in 2..4
    /\ \A p \in 1..Len(t) : ~IsDigit(t[p])
    /\ \A k \in 1..Len(name_indicators) : ~contains(name_indicators[k], t)
    /\ \A k \in 1..Len(dob_indicators) : ~contains(dob_indicators[k], t)
    /\ \A k \in 1..Len(id_indicators) : ~contains(id_indicators[k], t)

\* Positions (1-based, received order) of the name candidates.
Candidates == {k \in 1..Len(ocr) : NameCriteria(strip(ocr[k][2]))}

Y(k) == ocr[k][1][1][2]

X(k) == ocr[k][1][1][1]

\* Position k comes first in the order by y, then x, then received order.
FirstByPosition(k) ==
    \A j \in Candidates \ {k} :
        \/ Y(k) < Y(j)
        \/ Y(k) = Y(j) /\ X(k) < X(j)
        \/ Y(k) = Y(j) /\ X(k) = X(j) /\ k < j

\* C7: the returned name is the stripped text of the first candidate in
\* (y, x) order, and is absent exactly when there is no candidate.
NameIsFirstCandidate ==
    pc = "done" =>
        /\ (name = None) = (Candidates = {})
        /\ \A k \in Candidates : FirstByPosition(k) => name = strip(ocr[k][2])

\* C7 witness: a name was returned that is not the first candidate in
\* received order, with an ID and a date found as well.
NameWitness ==
    /\ pc = "done"
    /\ name # None /\ id_number # None /\ dob # None
    /\ \E j \in Candidates : \A k \in Candidates : j <= k /\ name # strip(ocr[j][2])

\* The list with position k (1-based) removed.
RemoveAt(l, k) == SubSeq(l, 1, k - 1) \o SubSeq(l, k + 1, Len(l))

Returned == [raised |-> FALSE, name |-> name, dob |-> dob, id_number |-> id_number]

\* C8 as claimed: the call returns, and returns what it returns for the
\* list with an empty-text token removed.
EmptyTokenRemovable ==
    /\ pc # "raised"
    /\ pc = "done" =>
          \A k \in 1..Len(ocr) :
              ocr[k][2] = <<>> => extract_fields_from_text(RemoveAt(ocr, k)) = Returned

\* The token before position k (1-based) is a label that reads its value
\* from the following token.
FollowsBareLabel(k) ==
    k > 1 /\ (IdLabelNoValue(ocr[k - 1]) \/ DobLabelNoValue(ocr[k - 1]))

EmptyTokenInv ==
    /\ pc # "raised"
    /\ pc = "done" =>
          \A k \in 1..Len(ocr) :
              ocr[k][2] = <<>> /\ ~FollowsBareLabel(k) =>
                  extract_fields_from_text(RemoveAt(ocr, k)) = Returned

\* A loop iteration that visits an empty-text token changes no field.
EmptyTokenStep ==
    \/ /\ pc \in {"pass1", "p2id_for", "p2dob_for"}
       /\ i < Len(raw_results) /\ At(raw_results, i)[2] = <<>>
    \/ /\ pc = "pass3"
       /\ i < Len(sorted_results) /\ At(sorted_results, i)[2] = <<>>
    => UNCHANGED <<name, dob, id_number>> /\ pc' # "raised"

\* C8 amended: an empty-text token supplies no value and aborts nothing, and
\* removing it leaves the three fields as they are unless it directly
\* follows an ID or DOB label that has no value in its own text.
EmptyTokenSkipped == []EmptyTokenInv /\ [][EmptyTokenStep]_vars

\* C8 witness: an empty-text token in the middle, not behind a bare label,
\* with an ID and a date extracted.
EmptyTokenWitness ==
    /\ pc = "done"
    /\ \E k \in 2..(Len(ocr) - 1) : ocr[k][2] = <<>> /\ ~FollowsBareLabel(k)
    /\ id_number # None /\ dob # None

\* C9: the list the caller passed holds the same results in the same order
\* at every point of the call and after it.
InputUnchanged == raw_results = ocr

\* C9 witness: the call has returned and the sorted view is in another
\* order than the list.
InputUnchangedWitness ==
    /\ pc = "done"
    /\ Len(raw_results) >= 2
    /\ sorted_results # raw_results

\* No two results share a top-left corner.
DistinctCorners == \A j, k \in 1..Len(ocr) : j # k => ocr[j][1][1] # ocr[k][1][1]

\* The lists that hold the results of ocr in another order.
Reorderings == {[k \in 1..Len(ocr) |-> ocr[f[k]]] : f \in Permutations(1..Len(ocr))}

\* C10: with pairwise distinct top-left corners, every reordering of the
\* list returns the same name.
NameOrderIndependent ==
    pc = "done" /\ DistinctCorners =>
        \A l \in Reorderings : extract_fields_from_text(l).name = name

\* C10 witness: three results on distinct corners, two of them candidates,
\* received in an order that is not the sorted one.
NameOrderWitness ==
    /\ pc = "done"
    /\ Len(ocr) = 3 /\ DistinctCorners
    /\ Cardinality(Candidates) >= 2
    /\ sorted_results # raw_results
    /\ name # None

====
